---------------------------- MODULE Spec2Model ----------------------------
(***************************************************************************)
(* The market-data engine of backend/market_data.py (MarketDataService):   *)
(* the Store of bounded candle Series, the stream upsert, the backfill     *)
(* write and the snapshot read.                                            *)
(*                                                                         *)
(* A candle is the 6-element list [time, open, high, low, close, volume]   *)
(* of the code, here the tuple <<t, o, h, l, c, v>>.  A Series is the      *)
(* deque(maxlen=HISTORY_LIMIT) of the code, here a sequence together with  *)
(* the maxlen that every deque operation is given.  The Store is the       *)
(* defaultdict of defaultdicts: a function whose DOMAIN is the set of      *)
(* symbols that have an entry, each value a function whose DOMAIN is the   *)
(* set of intervals that have an entry.                                    *)
(***************************************************************************)
EXTENDS Integers, Sequences, FiniteSets, TLC

(***************************************************************************)
(* Configuration (backend/config.py), scaled down.                         *)
(***************************************************************************)
\* Config.HISTORY_LIMIT is 300 in config.py:19; the model runs it at 3 so
\* that eviction happens within the explored timestamps.
HISTORY_LIMIT == 3

\* Config.SYMBOLS / Config.INTERVALS: one tracked symbol, one interval.
SYMBOLS == {"BTCUSDT"}

INTERVALS == {"1m"}

\* The tracked pairs: the double loop of _perform_initial_backfill.
TrackedPairs == SYMBOLS \X INTERVALS

(***************************************************************************)
(* Inputs.                                                                 *)
(***************************************************************************)
\* Open times the exchange sends: always one more than the capacity, so a
\* strictly increasing run can overflow the Series.
Times == {100 * n : n \in 1..(HISTORY_LIMIT + 1)}

\* Numeric fields arrive as text and go through float(); "x" is text that
\* float() rejects with ValueError.
RawPrices == {"1", "5"}

IsFloat(s) == s \in {"1", "5"}

\* float(s) for text that parses.
ToFloat(s) == IF s = "5" THEN 5 ELSE 1

(***************************************************************************)
(* Python containers.                                                      *)
(***************************************************************************)
\* Mutant of DequeAppend: the maxlen is forgotten.
DequeAppendNoTrim(buf, x, maxlen) == Append(buf, x)

\* deque.append on a deque with a maxlen: append on the right, then drop
\* from the left while the length exceeds maxlen.
DequeAppend(buf, x, maxlen) ==
    LET r == Append(buf, x)
    IN  IF Len(r) > maxlen THEN SubSeq(r, Len(r) - maxlen + 1, Len(r)) ELSE r

\* deque.extend: append each element of xs in order.
RECURSIVE DequeExtend(_, _, _)
DequeExtend(buf, xs, maxlen) ==
    IF xs = <<>> THEN buf
    ELSE DequeExtend(DequeAppend(buf, Head(xs), maxlen), Tail(xs), maxlen)

\* data[start:] of a Python list, start any integer.
SliceFrom(data, start) ==
    LET n == Len(data)
        s == IF start < 0 THEN (IF start + n < 0 THEN 0 ELSE start + n)
             ELSE (IF start > n THEN n ELSE start)
    IN  SubSeq(data, s + 1, n)

\* A dict with no key.
EmptyDict == [key \in {} |-> <<>>]

\* The keys of the nested defaultdict.
HasSeries(st, symbol, interval) ==
    symbol \in DOMAIN st /\ interval \in DOMAIN st[symbol]

\* st[symbol][interval] read without creating anything.
SeriesOf(st, symbol, interval) ==
    IF HasSeries(st, symbol, interval) THEN st[symbol][interval] ELSE <<>>

\* self.store[symbol][interval] on the defaultdicts: a missing symbol gets an
\* empty inner dict, a missing interval an empty deque.
GetItem(st, symbol, interval) ==
    LET inner == IF symbol \in DOMAIN st THEN st[symbol] ELSE EmptyDict
        inner2 == IF interval \in DOMAIN inner THEN inner
                  ELSE [i \in DOMAIN inner \cup {interval} |->
                          IF i = interval THEN <<>> ELSE inner[i]]
    IN  [s \in DOMAIN st \cup {symbol} |-> IF s = symbol THEN inner2 ELSE st[s]]

\* The Store with the Series of an existing key replaced by buf.
SetSeries(st, symbol, interval, buf) ==
    [st EXCEPT ![symbol] = [@ EXCEPT ![interval] = buf]]

\* str.upper() on the symbols a caller passes.
Upper(symbol) == IF symbol = "btcusdt" THEN "BTCUSDT" ELSE symbol

(***************************************************************************)
(* State.                                                                  *)
(***************************************************************************)
VARIABLES
    store,      \* self.store
    bfpc,       \* per tracked pair, where its _backfill_single task is
    formatted,  \* per tracked pair, the local list `formatted` of its task
    run,        \* history: per tracked pair, the candles streamed to it so
                \* far, kept while each had a later openTime than the one
                \* before and no other write touched the Series
    lastOp,     \* history: the operation that ran last, its input and result
    lock,       \* self.lock: TRUE while a task holds it
    rpc,        \* per get_candles caller, where it is in get_candles
    rargs,      \* per caller, its arguments <<symbol, interval, limit>>
    result,     \* per caller, the list it is about to return
    ipc,        \* where the ingestor is in _process_stream_data
    ik,         \* the kline dict k the ingestor is processing
    committed,  \* history: the Store as the last finished write left it
    heap,       \* the candle list objects, by reference
    running,    \* self.running
    session,    \* self.session: "none", "open" or "closed"
    ws_task,    \* self.ws_task: "none", or the state of the task it names
    wpc,        \* where the _ws_loop task is suspended
    conns,      \* the websocket connections that are open
    spc,        \* where the stop() call is
    bftask,     \* the state of the _perform_initial_backfill task
    disconnects, \* history: how many times the ingestor lost its connection
                 \* or failed to get one, counted up to MaxDisconnects
    backoffs,    \* history: how many times it began the backoff sleep,
                 \* counted up to MaxDisconnects
    instance,    \* MarketDataService._instance: the reference of the object
    initialized, \* self.initialized of that object
    inits,       \* history: how many times the body of __init__ has built
                 \* the Store, the lock and the other fields
    constructions \* history: how many times MarketDataService() was called
                  \* after the module's own call, up to MaxConstructions

\* The variables of the tasks that take the lock step by step.
taskVars == <<lock, rpc, rargs, result, ipc, ik, committed>>

\* The variables of the service's lifecycle and of the object references.
histVars == <<disconnects, backoffs>>

\* The variables of the class and of its construction.
clsVars == <<instance, initialized, inits, constructions>>

extVars == <<heap, running, session, ws_task, wpc, conns, spc, bftask, histVars,
             clsVars>>

vars == <<store, bfpc, formatted, run, lastOp, lock, rpc, rargs, result, ipc,
          ik, committed, heap, running, session, ws_task, wpc, conns, spc,
          bftask, disconnects, backoffs, instance, initialized, inits,
          constructions>>

\* The concurrent get_candles callers.
Callers == {"c1", "c2"}

NoArgs == <<"", "", 0>>

NoKline == [s |-> "", i |-> "", t |-> 0, o |-> "", h |-> "", l |-> "",
            c |-> "", v |-> ""]

NoOp == [op |-> "none", symbol |-> "", interval |-> "", candle |-> <<>>,
         limit |-> 0, result |-> <<>>, raised |-> FALSE, locked |-> FALSE]

Init ==
    /\ store = EmptyDict
    /\ bfpc = [p \in TrackedPairs |-> "request"]
    /\ formatted = [p \in TrackedPairs |-> <<>>]
    /\ run = [p \in TrackedPairs |-> [increasing |-> TRUE, candles |-> <<>>]]
    /\ lastOp = NoOp
    /\ lock = FALSE
    /\ rpc = [c \in Callers |-> "idle"]
    /\ rargs = [c \in Callers |-> NoArgs]
    /\ result = [c \in Callers |-> <<>>]
    /\ ipc = "receive"
    /\ ik = NoKline
    /\ committed = EmptyDict
    /\ heap = EmptyDict
    /\ running = FALSE
    /\ session = "none"
    /\ ws_task = "none"
    /\ wpc = "none"
    /\ conns = 0
    /\ spc = "idle"
    /\ bftask = "none"
    /\ disconnects = 0
    /\ backoffs = 0
    /\ instance = 1
    /\ initialized = TRUE
    /\ inits = 1
    /\ constructions = 0

(***************************************************************************)
(* Stream upsert: _process_stream_data.                                    *)
(***************************************************************************)
\* Mutant of UpsertBuffer: no comparison with the tail, every candle with
\* another openTime is appended.
UpsertBufferNoStaleCheck(buffer, candle, maxlen) ==
    IF Len(buffer) = 0 THEN DequeAppend(buffer, candle, maxlen)
    ELSE IF candle[1] = buffer[Len(buffer)][1]
         THEN [buffer EXCEPT ![Len(buffer)] = candle]
         ELSE DequeAppend(buffer, candle, maxlen)

\* Mutant of UpsertBuffer: >= where the code has >, so an update of the open
\* candle is appended.
UpsertBufferAppendOnEqual(buffer, candle, maxlen) ==
    IF Len(buffer) = 0 THEN DequeAppend(buffer, candle, maxlen)
    ELSE IF candle[1] >= buffer[Len(buffer)][1]
         THEN DequeAppend(buffer, candle, maxlen)
         ELSE buffer

\* Mutant of UpsertBuffer: the stored candle with the incoming openTime is
\* replaced wherever it is.
UpsertBufferReplaceAnywhere(buffer, candle, maxlen) ==
    IF \E n \in 1..Len(buffer) : buffer[n][1] = candle[1]
    THEN [n \in 1..Len(buffer) |->
            IF buffer[n][1] = candle[1] THEN candle ELSE buffer[n]]
    ELSE IF Len(buffer) = 0 \/ candle[1] > buffer[Len(buffer)][1]
         THEN DequeAppend(buffer, candle, maxlen)
         ELSE buffer

\* The body of the locked block, lines 171-183, on the deque `buffer`.
UpsertBuffer(buffer, candle, maxlen) ==
    IF Len(buffer) = 0 THEN DequeAppend(buffer, candle, maxlen)
    ELSE LET last_stored_time == buffer[Len(buffer)][1]
             incoming_time == candle[1]
         IN  IF incoming_time = last_stored_time
             THEN [buffer EXCEPT ![Len(buffer)] = candle]
             ELSE IF incoming_time > last_stored_time
                  THEN DequeAppend(buffer, candle, maxlen)
                  ELSE buffer

\* The history variable run after one more streamed candle.
RunAfter(r, candle) ==
    IF r.increasing
       /\ (r.candles = <<>> \/ candle[1] > r.candles[Len(r.candles)][1])
    THEN [increasing |-> TRUE, candles |-> Append(r.candles, candle)]
    ELSE [increasing |-> FALSE, candles |-> <<>>]

\* The kline dict k of a candle event.
Klines ==
    [s : SYMBOLS, i : INTERVALS, t : Times,
     o : {"1"}, h : {"1"}, l : {"1"}, c : RawPrices, v : {"1"}]

\* A kline whose close is text that float() rejects.
BadKlines ==
    [s : SYMBOLS, i : {"1m"}, t : {100},
     o : {"1"}, h : {"1"}, l : {"1"}, c : {"x"}, v : {"1"}]

\* The payloads json.loads hands to _process_stream_data.
Payloads ==
    {[result |-> "subscribed"]}
    \cup {[data |-> [e |-> "trade"]]}
    \cup {[data |-> [e |-> "kline", k |-> k]] : k \in Klines \cup BadKlines}

KlineNumeric(k) ==
    IsFloat(k.o) /\ IsFloat(k.h) /\ IsFloat(k.l) /\ IsFloat(k.c) /\ IsFloat(k.v)

\* Lines 158-165.
CandleOf(k) ==
    <<k.t, ToFloat(k.o), ToFloat(k.h), ToFloat(k.l), ToFloat(k.c), ToFloat(k.v)>>

ProcessStreamData(payload) ==
    /\ UNCHANGED <<bfpc, formatted>>
    /\ UNCHANGED <<taskVars, extVars>>
    /\ IF "data" \notin DOMAIN payload \/ payload.data.e # "kline"
       THEN \* lines 146-151: return
            /\ UNCHANGED <<store, run>>
            /\ lastOp' = [NoOp EXCEPT !.op = "stream"]
       ELSE LET k == payload.data.k
            IN  IF ~KlineNumeric(k)
                THEN \* float() raises ValueError before the lock is taken
                     /\ UNCHANGED <<store, run>>
                     /\ lastOp' = [NoOp EXCEPT !.op = "stream", !.symbol = k.s,
                                      !.interval = k.i, !.raised = TRUE]
                ELSE LET candle == CandleOf(k)
                         st == GetItem(store, k.s, k.i)
                     IN  /\ store' = SetSeries(st, k.s, k.i,
                                UpsertBuffer(st[k.s][k.i], candle, HISTORY_LIMIT))
                         /\ run' = [run EXCEPT ![<<k.s, k.i>>] = RunAfter(@, candle)]
                         /\ lastOp' = [NoOp EXCEPT !.op = "stream", !.symbol = k.s,
                                          !.interval = k.i, !.candle = candle,
                                          !.locked = TRUE]

(***************************************************************************)
(* Backfill: _backfill_single, one task per tracked pair.                  *)
(***************************************************************************)
\* A row [openTime, open, high, low, close, volume] of the klines endpoint.
Row(t) == <<t, "1", "1", "1", "1", "1">>

\* The bodies the endpoint answers with: at most `limit` consecutive rows,
\* oldest first.
Bodies ==
    UNION {{[n \in 1..len |-> Row(100 * (first + n - 1))] :
               len \in 0..(IF HISTORY_LIMIT + 2 - first < HISTORY_LIMIT
                           THEN HISTORY_LIMIT + 2 - first ELSE HISTORY_LIMIT)} :
           first \in 1..(HISTORY_LIMIT + 1)}

\* A body whose second row has a close that float() rejects.
BadBodies == {<<Row(100), <<200, "1", "1", "1", "x", "1">>>>}

\* What session.get gives: a response with a status and a body, or an
\* exception (error = TRUE).
Responses ==
    [error : {FALSE}, status : {200}, body : Bodies \cup BadBodies]
    \cup [error : {FALSE}, status : {500}, body : {<<>>}]
    \cup [error : {TRUE}, status : {0}, body : {<<>>}]

RowNumeric(d) ==
    IsFloat(d[2]) /\ IsFloat(d[3]) /\ IsFloat(d[4]) /\ IsFloat(d[5]) /\ IsFloat(d[6])

\* Lines 99-104: the list `formatted`.
Format(raw_data) ==
    [n \in 1..Len(raw_data) |->
        LET d == raw_data[n]
        IN  <<d[1], ToFloat(d[2]), ToFloat(d[3]), ToFloat(d[4]), ToFloat(d[5]),
              ToFloat(d[6])>>]

\* Mutant of Converts: only the first row is looked at.
ConvertsFirstRow(raw_data) == raw_data = <<>> \/ RowNumeric(raw_data[1])

\* Lines 99-104 run to the end: no int() or float() of any row raises.
Converts(raw_data) == \A n \in 1..Len(raw_data) : RowNumeric(raw_data[n])

\* Mutant of Absorbed: the failed load is scheduled again.
AbsorbedRetried(pcs, p) == [pcs EXCEPT ![p] = "scheduled"]

\* Mutant of Absorbed: the failure of one load ends every load that is not
\* over.
AbsorbedBySiblings(pcs, p) ==
    [q \in DOMAIN pcs |-> IF pcs[q] \in {"written", "skipped"} THEN pcs[q]
                          ELSE "failed"]

\* Lines 108-111: a failed load is logged inside its own _backfill_single,
\* which returns normally; the other tasks are as they were.
Absorbed(pcs, p) == [pcs EXCEPT ![p] = "failed"]

\* Lines 95-104 and 108-111: the request, the status test and the conversion.
\* The task goes on to the locked write only with status 200 and every row
\* converted ("formatted"); an exception or another status ends it
\* ("failed").
BackfillFetch(symbol, interval, resp) ==
    LET p == <<symbol, interval>>
        ok == ~resp.error /\ resp.status = 200 /\ Converts(resp.body)
    IN  /\ bfpc[p] = "request"
        /\ bfpc' = IF ok THEN [bfpc EXCEPT ![p] = "formatted"] ELSE Absorbed(bfpc, p)
        /\ formatted' = [formatted EXCEPT ![p] = IF ok THEN Format(resp.body) ELSE <<>>]
        /\ lastOp' = [NoOp EXCEPT !.op = "fetch", !.symbol = symbol,
                         !.interval = interval,
                         !.raised = (resp.error \/ (resp.status = 200 /\ ~ok))]
        /\ UNCHANGED <<store, run>>
        /\ UNCHANGED <<taskVars, extVars>>

\* Lines 106-107: self.store[symbol][interval].extend(formatted) under the lock.
ExtendBuffer(buffer, rows, maxlen) == DequeExtend(buffer, rows, maxlen)

BackfillWrite(symbol, interval) ==
    LET p == <<symbol, interval>>
        st == GetItem(store, symbol, interval)
    IN  /\ bfpc[p] = "formatted"
        /\ bfpc' = [bfpc EXCEPT ![p] = "written"]
        /\ formatted' = [formatted EXCEPT ![p] = <<>>]
        /\ store' = SetSeries(st, symbol, interval,
                       ExtendBuffer(st[symbol][interval], formatted[p], HISTORY_LIMIT))
        /\ run' = [run EXCEPT ![p] = [increasing |-> FALSE, candles |-> <<>>]]
        /\ lastOp' = [NoOp EXCEPT !.op = "backfill", !.symbol = symbol,
                         !.interval = interval, !.locked = TRUE]
        /\ UNCHANGED <<taskVars, extVars>>

(***************************************************************************)
(* Snapshot read: get_candles.                                             *)
(***************************************************************************)
\* What callers pass as limit.
ReadLimits == {-1, 0, 1, HISTORY_LIMIT + 1}

\* What callers pass: the tracked pair in lower case with each limit, a
\* symbol the Store does not track, an interval it does not track.
ReadRequests ==
    {<<"btcusdt", "1m", limit>> : limit \in ReadLimits}
    \cup {<<"ZZZUSD", "1m", 10>>, <<"BTCUSDT", "5m", 10>>}

\* Lines 66-71: the value get_candles returns.
Snapshot(st, symbol, interval, limit) ==
    LET sym == Upper(symbol)
    IN  IF sym \in DOMAIN st /\ interval \in DOMAIN st[sym]
        THEN SliceFrom(st[sym][interval], -limit)
        ELSE <<>>

\* Mutant of StoreAfterGet: the Series is looked up with
\* self.store[symbol][interval], which creates the missing keys.
StoreAfterGetCreating(st, symbol, interval) == GetItem(st, Upper(symbol), interval)

\* Lines 68-71 on the Store: the two membership tests create no key.
StoreAfterGet(st, symbol, interval) == st

GetCandles(symbol, interval, limit) ==
    /\ lastOp' = [NoOp EXCEPT !.op = "get", !.symbol = symbol,
                     !.interval = interval, !.limit = limit,
                     !.result = Snapshot(store, symbol, interval, limit),
                     !.locked = TRUE]
    /\ store' = StoreAfterGet(store, symbol, interval)
    /\ UNCHANGED <<bfpc, formatted, run>>
    /\ UNCHANGED <<taskVars, extVars>>

(***************************************************************************)
(* The Store under its three operations.                                   *)
(***************************************************************************)
Stream == \E payload \in Payloads : ProcessStreamData(payload)

Fetch == \E p \in TrackedPairs, resp \in Responses : BackfillFetch(p[1], p[2], resp)

Write == \E p \in TrackedPairs : BackfillWrite(p[1], p[2])

Read == \E r \in ReadRequests : GetCandles(r[1], r[2], r[3])

Next == Stream \/ Fetch \/ Write \/ Read

Spec == Init /\ [][Next]_vars

(***************************************************************************)
(* The same operations with the lock taken step by step: each `async with  *)
(* self.lock` is an acquire, the statements of the block one at a time,    *)
(* and a release.  Any other task may run between two steps, which is more *)
(* than the event loop allows (it switches tasks only at an await), so     *)
(* what holds here holds of the code's schedules.                          *)
(***************************************************************************)
\* Mutant of LockFree: the block is entered without looking at the lock.
LockFreeIgnored(l) == TRUE

\* asyncio.Lock.acquire goes through only when the lock is not held.
LockFree(l) == ~l

\* What the concurrent callers ask for: the whole Series of the tracked
\* pair, which shows every candle a write may be halfway through.
LockReadRequests == {<<"btcusdt", "1m", HISTORY_LIMIT>>}

\* get_candles is called (line 64-66) and reaches its `async with`.
GetCall(c, req) ==
    /\ rpc[c] = "idle"
    /\ rpc' = [rpc EXCEPT ![c] = "acquire"]
    /\ rargs' = [rargs EXCEPT ![c] = req]
    /\ UNCHANGED extVars
    /\ UNCHANGED <<store, bfpc, formatted, run, lastOp, lock, result, ipc, ik,
                   committed>>

\* Line 67: the lock is acquired.
GetAcquire(c) ==
    /\ rpc[c] = "acquire"
    /\ LockFree(lock)
    /\ lock' = TRUE
    /\ rpc' = [rpc EXCEPT ![c] = "locked"]
    /\ UNCHANGED extVars
    /\ UNCHANGED <<store, bfpc, formatted, run, lastOp, rargs, result, ipc, ik,
                   committed>>

\* Lines 68-71: the list to return is built.
GetRead(c) ==
    /\ rpc[c] = "locked"
    /\ result' = [result EXCEPT ![c] =
                     Snapshot(store, rargs[c][1], rargs[c][2], rargs[c][3])]
    /\ store' = StoreAfterGet(store, rargs[c][1], rargs[c][2])
    /\ rpc' = [rpc EXCEPT ![c] = "read"]
    /\ UNCHANGED extVars
    /\ UNCHANGED <<bfpc, formatted, run, lastOp, lock, rargs, ipc, ik, committed>>

\* The block is left: the lock is released and the list returned.
GetRelease(c) ==
    /\ rpc[c] = "read"
    /\ lock' = FALSE
    /\ rpc' = [rpc EXCEPT ![c] = "idle"]
    /\ rargs' = [rargs EXCEPT ![c] = NoArgs]
    /\ result' = [result EXCEPT ![c] = <<>>]
    /\ UNCHANGED extVars
    /\ UNCHANGED <<store, bfpc, formatted, run, lastOp, ipc, ik, committed>>

\* Lines 146-165: a candle event has been received and converted; the
\* ingestor reaches its `async with`.
StreamReceive(k) ==
    /\ ipc = "receive"
    /\ KlineNumeric(k)
    /\ ipc' = "acquire"
    /\ ik' = k
    /\ UNCHANGED extVars
    /\ UNCHANGED <<store, bfpc, formatted, run, lastOp, lock, rpc, rargs, result,
                   committed>>

\* Line 167.
StreamAcquire ==
    /\ ipc = "acquire"
    /\ LockFree(lock)
    /\ lock' = TRUE
    /\ ipc' = "locked"
    /\ UNCHANGED extVars
    /\ UNCHANGED <<store, bfpc, formatted, run, lastOp, rpc, rargs, result, ik,
                   committed>>

\* Line 168: buffer = self.store[symbol][interval].
StreamLookup ==
    /\ ipc = "locked"
    /\ store' = GetItem(store, ik.s, ik.i)
    /\ ipc' = "buffer"
    /\ UNCHANGED extVars
    /\ UNCHANGED <<bfpc, formatted, run, lastOp, lock, rpc, rargs, result, ik,
                   committed>>

\* Lines 171-183.
StreamMutate ==
    /\ ipc = "buffer"
    /\ store' = SetSeries(store, ik.s, ik.i,
                   UpsertBuffer(store[ik.s][ik.i], CandleOf(ik), HISTORY_LIMIT))
    /\ ipc' = "mutated"
    /\ UNCHANGED extVars
    /\ UNCHANGED <<bfpc, formatted, run, lastOp, lock, rpc, rargs, result, ik,
                   committed>>

\* Mutant of StreamRelease: the ingestor goes back to wait for the next
\* message with the lock still held.
StreamReleaseKeepsLock ==
    /\ ipc = "mutated"
    /\ ipc' = "receive"
    /\ ik' = NoKline
    /\ committed' = store
    /\ UNCHANGED extVars
    /\ UNCHANGED <<store, bfpc, formatted, run, lastOp, lock, rpc, rargs, result>>

\* The block is left: the lock is released.
StreamRelease ==
    /\ ipc = "mutated"
    /\ lock' = FALSE
    /\ ipc' = "receive"
    /\ ik' = NoKline
    /\ committed' = store
    /\ UNCHANGED extVars
    /\ UNCHANGED <<store, bfpc, formatted, run, lastOp, rpc, rargs, result>>

\* Line 106: the backfill task of the pair acquires the lock.
BackfillAcquire(symbol, interval) ==
    /\ bfpc[<<symbol, interval>>] = "formatted"
    /\ LockFree(lock)
    /\ lock' = TRUE
    /\ bfpc' = [bfpc EXCEPT ![<<symbol, interval>>] = "locked"]
    /\ UNCHANGED extVars
    /\ UNCHANGED <<store, formatted, run, lastOp, rpc, rargs, result, ipc, ik,
                   committed>>

\* Line 107: self.store[symbol][interval] is looked up.
BackfillLookup(symbol, interval) ==
    /\ bfpc[<<symbol, interval>>] = "locked"
    /\ store' = GetItem(store, symbol, interval)
    /\ bfpc' = [bfpc EXCEPT ![<<symbol, interval>>] = "extending"]
    /\ UNCHANGED extVars
    /\ UNCHANGED <<formatted, run, lastOp, lock, rpc, rargs, result, ipc, ik,
                   committed>>

\* Line 107: extend appends the next candle of `formatted`.
BackfillExtendOne(symbol, interval) ==
    LET p == <<symbol, interval>>
    IN  /\ bfpc[p] = "extending"
        /\ formatted[p] # <<>>
        /\ store' = SetSeries(store, symbol, interval,
                       ExtendBuffer(store[symbol][interval], <<Head(formatted[p])>>,
                                    HISTORY_LIMIT))
        /\ formatted' = [formatted EXCEPT ![p] = Tail(@)]
        /\ UNCHANGED extVars
        /\ UNCHANGED <<bfpc, run, lastOp, lock, rpc, rargs, result, ipc, ik,
                       committed>>

\* extend is through; the block is left and the lock released.
BackfillRelease(symbol, interval) ==
    LET p == <<symbol, interval>>
    IN  /\ bfpc[p] = "extending"
        /\ formatted[p] = <<>>
        /\ lock' = FALSE
        /\ bfpc' = [bfpc EXCEPT ![p] = "written"]
        /\ committed' = store
        /\ UNCHANGED extVars
        /\ UNCHANGED <<store, formatted, run, lastOp, rpc, rargs, result, ipc, ik>>

CallerStep ==
    \E c \in Callers :
        \/ \E req \in LockReadRequests : GetCall(c, req)
        \/ GetAcquire(c)
        \/ GetRead(c)
        \/ GetRelease(c)

IngestorStep ==
    \/ \E k \in Klines : StreamReceive(k)
    \/ StreamAcquire
    \/ StreamLookup
    \/ StreamMutate
    \/ StreamRelease

BackfillStep ==
    \E p \in TrackedPairs :
        \/ \E resp \in Responses : BackfillFetch(p[1], p[2], resp)
        \/ BackfillAcquire(p[1], p[2])
        \/ BackfillLookup(p[1], p[2])
        \/ BackfillExtendOne(p[1], p[2])
        \/ BackfillRelease(p[1], p[2])

NextLock == CallerStep \/ IngestorStep \/ BackfillStep

SpecLock == Init /\ [][NextLock]_vars

(***************************************************************************)
(* The same operations with the candles as objects.  A candle is a Python  *)
(* list: the deque of a Series and the list get_candles returns hold        *)
(* references to it, and `heap` maps each reference to the list's fields.  *)
(***************************************************************************)
\* How many candle objects are created in a run.
MaxObjects == 4

Refs == 1..MaxObjects

\* The reference a newly built list gets.
NewRef(h) == CHOOSE a \in Refs \ DOMAIN h : \A b \in Refs \ DOMAIN h : a <= b

\* The heap with the new object `obj` at reference a.
Alloc(h, a, obj) == [b \in DOMAIN h \cup {a} |-> IF b = a THEN obj ELSE h[b]]

\* The candles a list of references shows to whoever reads through it.
Deref(h, refs) == [n \in 1..Len(refs) |-> h[refs[n]]]

\* Lines 171-183 on a deque of references: buffer[-1][0] reads the tail
\* object's openTime, buffer[-1] = candle stores the new object's reference
\* in the tail slot and leaves the object that was there as it is.
UpsertRef(h, buffer, ref, maxlen) ==
    IF Len(buffer) = 0 THEN DequeAppend(buffer, ref, maxlen)
    ELSE LET last_stored_time == h[buffer[Len(buffer)]][1]
             incoming_time == h[ref][1]
         IN  IF incoming_time = last_stored_time
             THEN [buffer EXCEPT ![Len(buffer)] = ref]
             ELSE IF incoming_time > last_stored_time
                  THEN DequeAppend(buffer, ref, maxlen)
                  ELSE buffer

\* Lines 99-104: each row of the body becomes a new list object.
RECURSIVE AllocRows(_, _)
AllocRows(h, rows) ==
    IF rows = <<>> THEN [heap |-> h, refs |-> <<>>]
    ELSE LET a == NewRef(h)
             rest == AllocRows(Alloc(h, a, Head(rows)), Tail(rows))
         IN  [heap |-> rest.heap, refs |-> <<a>> \o rest.refs]

\* The candle events and bodies of this specification.
AliasKlines == {k \in Klines : k.t \in {100, 200}}

AliasBodies == {<<Row(100)>>, <<Row(100), Row(200)>>}

\* The value a caller writes into a field of a candle it was given.
CallerValue == 9

\* What no action of this specification touches.
aliasFrame == <<bfpc, formatted, run, lock, rpc, rargs, ipc, ik, committed,
                running, session, ws_task, wpc, conns, spc, bftask, histVars,
                clsVars>>

\* _process_stream_data with a candle event: line 158 builds the list,
\* lines 167-183 store its reference.
AliasStream(k) ==
    /\ DOMAIN heap # Refs
    /\ LET a == NewRef(heap)
           h == Alloc(heap, a, CandleOf(k))
           st == GetItem(store, k.s, k.i)
       IN  /\ heap' = h
           /\ store' = SetSeries(st, k.s, k.i,
                          UpsertRef(h, st[k.s][k.i], a, HISTORY_LIMIT))
    /\ lastOp' = [NoOp EXCEPT !.op = "stream", !.symbol = k.s,
                     !.interval = k.i, !.locked = TRUE]
    /\ UNCHANGED <<result, aliasFrame>>

\* _backfill_single with a well-formed body: lines 97-107.
AliasBackfill(symbol, interval, body) ==
    /\ Cardinality(Refs \ DOMAIN heap) >= Len(body)
    /\ LET made == AllocRows(heap, Format(body))
           st == GetItem(store, symbol, interval)
       IN  /\ heap' = made.heap
           /\ store' = SetSeries(st, symbol, interval,
                          ExtendBuffer(st[symbol][interval], made.refs,
                                       HISTORY_LIMIT))
    /\ lastOp' = [NoOp EXCEPT !.op = "backfill", !.symbol = symbol,
                     !.interval = interval, !.locked = TRUE]
    /\ UNCHANGED <<result, aliasFrame>>

\* get_candles: list(deque) and the slice make new lists of the same
\* references; the caller c keeps what is returned.
AliasGet(c, symbol, interval, limit) ==
    /\ result' = [result EXCEPT ![c] = Snapshot(store, symbol, interval, limit)]
    /\ store' = StoreAfterGet(store, symbol, interval)
    /\ lastOp' = [NoOp EXCEPT !.op = "get", !.symbol = symbol,
                     !.interval = interval, !.limit = limit, !.locked = TRUE]
    /\ UNCHANGED <<heap, aliasFrame>>

\* The caller c assigns to the close field of the n-th candle it was given:
\* snapshot[n][4] = value.
CallerSetField(c, n) ==
    /\ n \in 1..Len(result[c])
    /\ heap' = [heap EXCEPT ![result[c][n]][5] = CallerValue]
    /\ lastOp' = [NoOp EXCEPT !.op = "caller"]
    /\ UNCHANGED <<store, result, aliasFrame>>

\* The caller c removes the last element of the list it was given:
\* snapshot.pop().
CallerPop(c) ==
    /\ result[c] # <<>>
    /\ result' = [result EXCEPT ![c] = SubSeq(@, 1, Len(@) - 1)]
    /\ lastOp' = [NoOp EXCEPT !.op = "caller"]
    /\ UNCHANGED <<store, heap, aliasFrame>>

AliasWrite ==
    \/ \E k \in AliasKlines : AliasStream(k)
    \/ \E p \in TrackedPairs, body \in AliasBodies : AliasBackfill(p[1], p[2], body)

AliasRead == \E c \in Callers, r \in LockReadRequests : AliasGet(c, r[1], r[2], r[3])

AliasCaller ==
    \E c \in Callers :
        \/ \E n \in 1..HISTORY_LIMIT : CallerSetField(c, n)
        \/ CallerPop(c)

NextAlias == AliasWrite \/ AliasRead \/ AliasCaller

SpecAlias == Init /\ [][NextAlias]_vars

(***************************************************************************)
(* The service's lifecycle: start(), stop(), the backfill tasks and the    *)
(* _ws_loop task on one event loop.  A task runs from one await to the     *)
(* next without any other task running, so an action is the code between   *)
(* two awaits.  `async with self.lock` does not suspend when the lock is   *)
(* free, so a locked block is part of the action that reaches it.          *)
(***************************************************************************)
\* Config.SYMBOLS, scaled to two symbols.
LifeSymbols == {"BTCUSDT", "ETHUSDT"}

LifePairs == LifeSymbols \X INTERVALS

\* The state after construction, before start().
InitLife ==
    /\ store = EmptyDict
    /\ bfpc = [p \in LifePairs |-> "none"]
    /\ formatted = [p \in LifePairs |-> <<>>]
    /\ run = [p \in LifePairs |-> [increasing |-> TRUE, candles |-> <<>>]]
    /\ lastOp = NoOp
    /\ lock = FALSE
    /\ rpc = [c \in Callers |-> "idle"]
    /\ rargs = [c \in Callers |-> NoArgs]
    /\ result = [c \in Callers |-> <<>>]
    /\ ipc = "receive"
    /\ ik = NoKline
    /\ committed = EmptyDict
    /\ heap = EmptyDict
    /\ running = FALSE
    /\ session = "none"
    /\ ws_task = "none"
    /\ wpc = "none"
    /\ conns = 0
    /\ spc = "idle"
    /\ bftask = "none"
    /\ disconnects = 0
    /\ backoffs = 0
    /\ instance = 1
    /\ initialized = TRUE
    /\ inits = 1
    /\ constructions = 0

\* Every task is at an await (or has not run yet, or is over): the event
\* loop may run any task that is ready.  "disconnected" is the ingestor at
\* the top of its loop and "formatted" a backfill task about to write; both
\* run on without an await.
Suspended ==
    /\ wpc # "disconnected"
    /\ \A p \in LifePairs : bfpc[p] # "formatted"

\* Mutant of CreateTask: the coroutine is awaited to its end.
CreateTaskAwaited == "done"

\* asyncio.create_task: the task is scheduled and has not run.
CreateTask == "pending"

\* start(), lines 37-48; it has no await.
Start ==
    /\ Suspended
    /\ ws_task = "none"
    /\ running' = TRUE
    /\ session' = "open"
    /\ bftask' = CreateTask
    /\ ws_task' = CreateTask
    /\ wpc' = "created"
    /\ UNCHANGED <<store, bfpc, formatted, run, lastOp, taskVars, clsVars,
                   heap, histVars, conns, spc>>

\* Mutant of Cancel: no cancellation is requested.
CancelIgnored(task) == task

\* Task.cancel(): a task that is not done gets a CancelledError at the
\* await it is suspended at; a task that is done is left as it is.
Cancel(task) == IF task = "pending" THEN "cancelling" ELSE task

\* stop(), lines 52-56 and 60-61: up to `await self.ws_task`, or to the end
\* when there is no task and no session.
StopCall ==
    /\ Suspended
    /\ spc = "idle"
    /\ running' = FALSE
    /\ IF ws_task # "none"
       THEN /\ ws_task' = Cancel(ws_task)
            /\ spc' = "awaiting"
            /\ UNCHANGED session
       ELSE /\ UNCHANGED ws_task
            /\ IF session # "none"
               THEN session' = "closed" /\ spc' = "closing"
               ELSE UNCHANGED session /\ spc' = "returned"
    /\ UNCHANGED <<store, bfpc, formatted, run, lastOp, taskVars, clsVars,
                   heap, histVars, wpc, conns, bftask>>

\* Mutant of TaskDone: the await does not wait for the task.
TaskDoneIgnored(task) == TRUE

\* `await self.ws_task` goes on when the task is over.
TaskDone(task) == task \in {"cancelled", "done"}

\* Lines 56-61: the awaited task is over (its CancelledError is caught) and
\* session.close() is called.
StopAwaited ==
    /\ Suspended
    /\ spc = "awaiting"
    /\ TaskDone(ws_task)
    /\ IF session # "none"
       THEN session' = "closed" /\ spc' = "closing"
       ELSE UNCHANGED session /\ spc' = "returned"
    /\ UNCHANGED <<store, bfpc, formatted, run, lastOp, taskVars, clsVars,
                   heap, histVars, running, ws_task, wpc, conns, bftask>>

\* Lines 61-62: session.close() is through and stop() returns.
StopReturn ==
    /\ Suspended
    /\ spc = "closing"
    /\ spc' = "returned"
    /\ UNCHANGED <<store, bfpc, formatted, run, lastOp, taskVars, clsVars,
                   heap, histVars, running, session, ws_task, wpc, conns,
                   bftask>>

\* _perform_initial_backfill, lines 73-82: one _backfill_single per pair is
\* handed to gather, which schedules them all.
BackfillGather ==
    /\ Suspended
    /\ bftask = "pending"
    /\ bftask' = "gathering"
    /\ bfpc' = [p \in LifePairs |-> "scheduled"]
    /\ UNCHANGED <<store, formatted, run, lastOp, taskVars, clsVars, heap,
                   histVars, running, session, ws_task, wpc, conns, spc>>

\* _backfill_single, lines 86-95, up to the request: without a session the
\* task returns; on a closed session the request raises and line 110
\* catches it.
BackfillSingleBegin(symbol, interval) ==
    LET p == <<symbol, interval>>
    IN  /\ Suspended
        /\ bfpc[p] = "scheduled"
        /\ bfpc' = IF session = "none" THEN [bfpc EXCEPT ![p] = "skipped"]
                   ELSE IF session = "closed" THEN Absorbed(bfpc, p)
                   ELSE [bfpc EXCEPT ![p] = "request"]
        /\ UNCHANGED <<store, formatted, run, lastOp, taskVars, clsVars, heap,
                       histVars, running, session, ws_task, wpc, conns, spc,
                       bftask>>

\* The responses of this specification: a one-row body, a body with a row
\* that does not convert, a non-success status, a network error.
LifeResponses ==
    {resp \in Responses : resp.body \in {<<>>, <<Row(100)>>} \cup BadBodies}
        \ {[error |-> FALSE, status |-> 200, body |-> <<>>]}

\* Lines 95-104: the response arrives.
LifeFetch(symbol, interval, resp) ==
    /\ Suspended
    /\ BackfillFetch(symbol, interval, resp)

\* Lines 106-107, reached without an await from the conversion.
LifeWrite(symbol, interval) ==
    /\ LockFree(lock)
    /\ BackfillWrite(symbol, interval)

\* Line 82: gather returns when every _backfill_single is over.
BackfillGathered ==
    /\ Suspended
    /\ bftask = "gathering"
    /\ \A p \in LifePairs : bfpc[p] \in {"written", "failed", "skipped"}
    /\ bftask' = "done"
    /\ UNCHANGED <<store, bfpc, formatted, run, lastOp, taskVars, clsVars,
                   heap, histVars, running, session, ws_task, wpc, conns,
                   spc>>

\* The reads of this specification: the tracked pair and an unknown symbol.
LifeReads == {<<"btcusdt", "1m", HISTORY_LIMIT>>, <<"ZZZUSD", "1m", HISTORY_LIMIT>>}

\* get_candles, lines 64-71, called while every task is at an await.
LifeGet(symbol, interval, limit) ==
    /\ Suspended
    /\ LockFree(lock)
    /\ GetCandles(symbol, interval, limit)

\* The text frames the connection delivers, named by what they carry.
Texts == {"ack", "trade", "kline", "kline untracked", "kline bad close",
          "kline no close", "not json"}

\* The candle event of the tracked pair.
LifeKline == [s |-> "BTCUSDT", i |-> "1m", t |-> 100, o |-> "1", h |-> "1",
              l |-> "1", c |-> "1", v |-> "1"]

\* json.loads raises on a text that is not JSON.
Decodable(text) == text # "not json"

\* json.loads(msg.data), line 135.
JsonLoads(text) ==
    CASE text = "ack" -> [result |-> "subscribed"]
      [] text = "trade" -> [data |-> [e |-> "trade"]]
      [] text = "kline" -> [data |-> [e |-> "kline", k |-> LifeKline]]
      [] text = "kline untracked" ->
            [data |-> [e |-> "kline", k |-> [LifeKline EXCEPT !.s = "ZZZUSD"]]]
      [] text = "kline bad close" ->
            [data |-> [e |-> "kline", k |-> [LifeKline EXCEPT !.c = "x"]]]
      [] text = "kline no close" ->
            [data |-> [e |-> "kline",
                       k |-> [f \in DOMAIN LifeKline \ {"c"} |-> LifeKline[f]]]]

\* What `async for msg in ws` yields: text frames, an error-type message, a
\* frame of another type.
Frames ==
    [type : {"TEXT"}, data : Texts]
        \cup {[type |-> "ERROR", data |-> ""], [type |-> "BINARY", data |-> ""]}

\* Lines 146-151: the payload gets past the two early returns.
IsKlineEvent(payload) == "data" \in DOMAIN payload /\ payload.data.e = "kline"

\* Lines 153-165 look up every field of k: a missing one raises KeyError.
KlineComplete(k) == {"s", "i", "t", "o", "h", "l", "c", "v"} \subseteq DOMAIN k

\* _process_stream_data raises: lines 153-165.
ProcessRaises(payload) ==
    /\ IsKlineEvent(payload)
    /\ ~KlineComplete(payload.data.k) \/ ~KlineNumeric(payload.data.k)

\* Lines 135-136 raise on this frame.
FrameRaises(frame) ==
    /\ frame.type = "TEXT"
    /\ ~Decodable(frame.data) \/ ProcessRaises(JsonLoads(frame.data))

\* Mutant of StoreAfterRaise: the failure empties the Store.
StoreAfterRaiseCleared(st, frame) == EmptyDict

\* The Store after lines 135-136 have raised on the frame: json.loads and
\* lines 153-165 raise before line 167, so nothing has been written.
StoreAfterRaise(st, frame) == st

\* The Store after _process_stream_data(payload) has returned.
StoreAfterProcess(st, payload) ==
    IF ~IsKlineEvent(payload) THEN st
    ELSE LET k == payload.data.k
             made == GetItem(st, k.s, k.i)
         IN  SetSeries(made, k.s, k.i,
                       UpsertBuffer(made[k.s][k.i], CandleOf(k), HISTORY_LIMIT))

\* Mutant of AtLoopTop: the loop takes the connection to be there.
AtLoopTopConnected == IF ~running THEN "ended" ELSE "receive"

\* Line 124 onwards, from the top of the loop to the next await: the loop
\* ends, or sleeps for want of a session, or calls ws_connect.
AtLoopTop ==
    IF ~running THEN "ended"
    ELSE IF session = "none" THEN "sleep" ELSE "connecting"

\* Mutant of AfterException: the exception ends the loop.
AfterExceptionEnds == "ended"

\* Lines 139-142: an exception is caught; while running the task sleeps
\* five seconds, otherwise it is back at the top of the loop.
AfterException == IF running THEN "backoff" ELSE "disconnected"

\* Up to how many disconnects and backoff sleeps the history counts.
MaxDisconnects == 2

\* A history counter after one more event; it stays at MaxDisconnects.
Counted(n) == IF n < MaxDisconnects THEN n + 1 ELSE n

\* The backoff sleeps begun, after an exception that led to pc.
BackoffsAfter(pc) == IF pc = "backoff" THEN Counted(backoffs) ELSE backoffs

\* The state of the task when the coroutine is at pc.
TaskAt(pc) == IF pc = "ended" THEN "done" ELSE ws_task

\* The task runs for the first time: lines 117-124.
WsFirstRun ==
    /\ Suspended
    /\ ws_task = "pending"
    /\ wpc = "created"
    /\ wpc' = "disconnected"
    /\ UNCHANGED <<store, bfpc, formatted, run, lastOp, taskVars, clsVars,
                   heap, histVars, running, session, ws_task, conns, spc,
                   bftask>>

\* Lines 124-130: the top of the loop.
WsLoop ==
    /\ wpc = "disconnected"
    /\ wpc' = AtLoopTop
    /\ ws_task' = TaskAt(AtLoopTop)
    /\ UNCHANGED <<store, bfpc, formatted, run, lastOp, taskVars, clsVars,
                   heap, histVars, running, session, conns, spc, bftask>>

\* Line 130: ws_connect succeeds, the connection is open and the task waits
\* for the first message.
WsConnected ==
    /\ Suspended
    /\ ws_task = "pending"
    /\ wpc = "connecting"
    /\ wpc' = "receive"
    /\ conns' = conns + 1
    /\ UNCHANGED <<store, bfpc, formatted, run, lastOp, taskVars, clsVars,
                   heap, histVars, running, session, ws_task, spc, bftask>>

\* Line 130: ws_connect raises.
WsConnectFailed ==
    /\ Suspended
    /\ ws_task = "pending"
    /\ wpc = "connecting"
    /\ wpc' = AfterException
    /\ ws_task' = TaskAt(AfterException)
    /\ disconnects' = Counted(disconnects)
    /\ backoffs' = BackoffsAfter(AfterException)
    /\ UNCHANGED <<store, bfpc, formatted, run, lastOp, taskVars, clsVars,
                   heap, running, session, conns, spc, bftask>>

\* Lines 133-142: a message arrives.  A text is decoded and processed; if
\* that raises, the `async with` closes the connection and line 139 catches
\* the exception.  An error-type message breaks out of the loop, which
\* closes the connection without an exception.  Any other type is skipped.
WsFrame(frame) ==
    /\ Suspended
    /\ ws_task = "pending"
    /\ wpc = "receive"
    /\ IF FrameRaises(frame)
       THEN /\ conns' = conns - 1
            /\ wpc' = AfterException
            /\ ws_task' = TaskAt(AfterException)
            /\ disconnects' = Counted(disconnects)
            /\ backoffs' = BackoffsAfter(AfterException)
            /\ store' = StoreAfterRaise(store, frame)
       ELSE IF frame.type = "TEXT"
            THEN /\ LockFree(lock)
                 /\ store' = StoreAfterProcess(store, JsonLoads(frame.data))
                 /\ UNCHANGED <<wpc, conns, ws_task, histVars>>
            ELSE IF frame.type = "ERROR"
                 THEN /\ conns' = conns - 1
                      /\ wpc' = "disconnected"
                      /\ disconnects' = Counted(disconnects)
                      /\ UNCHANGED <<store, ws_task, backoffs>>
                 ELSE UNCHANGED <<store, wpc, conns, ws_task, histVars>>
    /\ UNCHANGED <<bfpc, formatted, run, lastOp, taskVars, clsVars, heap,
                   running, session, spc, bftask>>

\* Line 133: the peer closes the connection and the iteration ends.
WsPeerClose ==
    /\ Suspended
    /\ ws_task = "pending"
    /\ wpc = "receive"
    /\ conns' = conns - 1
    /\ wpc' = "disconnected"
    /\ disconnects' = Counted(disconnects)
    /\ UNCHANGED <<store, bfpc, formatted, run, lastOp, taskVars, clsVars,
                   heap, backoffs, running, session, ws_task, spc, bftask>>

\* Lines 127-128 and 142: a sleep is over.
WsWake ==
    /\ Suspended
    /\ ws_task = "pending"
    /\ wpc \in {"backoff", "sleep"}
    /\ wpc' = "disconnected"
    /\ UNCHANGED <<store, bfpc, formatted, run, lastOp, taskVars, clsVars,
                   heap, histVars, running, session, ws_task, conns, spc,
                   bftask>>

\* The CancelledError of stop() reaches the task at its await.  `except
\* Exception` does not catch it; on its way out the `async with` closes the
\* connection if one is open.
WsCancelled ==
    /\ Suspended
    /\ ws_task = "cancelling"
    /\ ws_task' = "cancelled"
    /\ wpc' = "cancelled"
    /\ conns' = IF wpc = "receive" THEN conns - 1 ELSE conns
    /\ UNCHANGED <<store, bfpc, formatted, run, lastOp, taskVars, clsVars,
                   heap, histVars, running, session, spc, bftask>>

LifecycleStep == Start \/ StopCall \/ StopAwaited \/ StopReturn

LoaderStep ==
    \/ BackfillGather
    \/ \E p \in LifePairs :
          \/ BackfillSingleBegin(p[1], p[2])
          \/ \E resp \in LifeResponses : LifeFetch(p[1], p[2], resp)
          \/ LifeWrite(p[1], p[2])
    \/ BackfillGathered

WsStep ==
    \/ WsFirstRun
    \/ WsLoop
    \/ WsConnected
    \/ WsConnectFailed
    \/ \E frame \in Frames : WsFrame(frame)
    \/ WsPeerClose
    \/ WsWake
    \/ WsCancelled

ReadStep == \E r \in LifeReads : LifeGet(r[1], r[2], r[3])

NextLife == LifecycleStep \/ LoaderStep \/ WsStep \/ ReadStep

SpecLife == InitLife /\ [][NextLife]_vars

\* The event loop runs every task that is ready (the ingestor, and stop()
\* once it has been called), each sleep ends, and a connection attempt that
\* is made again and again succeeds at some time.  Nothing obliges the
\* process to call start() or stop(), nor the peer to send a message or
\* answer a request; a backfill task that has its rows goes on to write
\* them, there being no await in between.
FairLife ==
    /\ WF_vars(\E p \in LifePairs : LifeWrite(p[1], p[2]))
    /\ WF_vars(StopAwaited)
    /\ WF_vars(StopReturn)
    /\ WF_vars(WsFirstRun)
    /\ WF_vars(WsLoop)
    /\ WF_vars(WsWake)
    /\ WF_vars(WsCancelled)
    /\ SF_vars(WsConnected)

SpecLifeFair == InitLife /\ [][NextLife]_vars /\ FairLife

(***************************************************************************)
(* Properties.                                                             *)
(***************************************************************************)
\* The Series of the tracked pair p.
Series(p) == SeriesOf(store, p[1], p[2])

StrictlyAscending(buf) ==
    \A n \in 1..(Len(buf) - 1) : buf[n][1] < buf[n + 1][1]

\* The last n elements of a sequence (all of it when it is shorter).
LastN(buf, n) ==
    IF n <= 0 THEN <<>>
    ELSE IF Len(buf) <= n THEN buf ELSE SubSeq(buf, Len(buf) - n + 1, Len(buf))

\* The key a stream or backfill write of lastOp went to.
OpKey(op) == <<op.symbol, op.interval>>

\* C2: a Series that only stream upserts have written (its backfill has not
\* written yet) is strictly ascending by openTime, hence holds no openTime
\* twice, whatever openTimes the upserts carried and in whatever order.
C2_StreamOnlyAscending ==
    \A p \in TrackedPairs :
        bfpc[p] # "written" => StrictlyAscending(Series(p))

\* C2 witness: an out-of-order candle has just been streamed to a Series
\* that holds two candles or more and that no backfill has written.
C2_Witness ==
    /\ lastOp.op = "stream" /\ lastOp.locked
    /\ bfpc[OpKey(lastOp)] # "written"
    /\ Len(Series(OpKey(lastOp))) >= 2
    /\ lastOp.candle[1] < Series(OpKey(lastOp))[Len(Series(OpKey(lastOp)))][1]

\* C5: every Series has at most HISTORY_LIMIT candles, after any writes; and
\* after N > HISTORY_LIMIT streamed candles of strictly increasing openTime
\* (and no other write) the Series is the last HISTORY_LIMIT of them, in
\* arrival order.
C5_BoundedOldestFirst ==
    /\ \A s \in DOMAIN store : \A i \in DOMAIN store[s] :
          Len(store[s][i]) <= HISTORY_LIMIT
    /\ \A p \in TrackedPairs :
          (run[p].increasing /\ Len(run[p].candles) > HISTORY_LIMIT)
          => /\ Len(Series(p)) = HISTORY_LIMIT
             /\ Series(p) = SubSeq(run[p].candles,
                                   Len(run[p].candles) - HISTORY_LIMIT + 1,
                                   Len(run[p].candles))

\* C5 witness: more than HISTORY_LIMIT candles of increasing openTime have
\* been streamed to a pair.
C5_Witness ==
    \E p \in TrackedPairs :
        run[p].increasing /\ Len(run[p].candles) > HISTORY_LIMIT

\* A stream upsert has just run its locked block (this step).
StreamWrote == lastOp'.op = "stream" /\ lastOp'.locked

\* The backfill write has just run (this step).
BackfillWrote == lastOp'.op = "backfill"

\* The Series of key before and after this step.
Before(key) == SeriesOf(store, key[1], key[2])

After(key) == SeriesOf(store', key[1], key[2])

TailTime(buf) == buf[Len(buf)][1]

\* Drop from the front until at most capacity elements are left.
RECURSIVE EvictFront(_, _)
EvictFront(buf, capacity) ==
    IF Len(buf) > capacity THEN EvictFront(Tail(buf), capacity) ELSE buf

\* The decision rule of the upsert, as the specification words it.
UpsertRule(pre, candle, capacity) ==
    IF pre = <<>> THEN <<candle>>
    ELSE IF candle[1] = TailTime(pre)
         THEN SubSeq(pre, 1, Len(pre) - 1) \o <<candle>>
         ELSE IF candle[1] > TailTime(pre)
              THEN EvictFront(pre \o <<candle>>, capacity)
              ELSE pre

\* The candle with open time t and close c, the other fields 1.
Candle(t, c) == <<t, 1, 1, 1, c, 1>>

\* UpsertBuffer applied to each candle of a list in order.
RECURSIVE UpsertAll(_, _, _)
UpsertAll(buffer, candles, maxlen) ==
    IF candles = <<>> THEN buffer
    ELSE UpsertAll(UpsertBuffer(buffer, Head(candles), maxlen), Tail(candles), maxlen)

\* C3: one stream upsert follows the decision rule (empty Series: append;
\* openTime equal to the tail's: replace the tail only; greater: append and
\* drop from the front down to the capacity; less: unchanged); and with
\* capacity 3 the candles 100, 200, 300, 300 (close 5), 400 applied to an
\* empty Series leave exactly 200, 300 (close 5), 400.
C3_DecisionRule ==
    /\ [][StreamWrote =>
            After(OpKey(lastOp')) =
                UpsertRule(Before(OpKey(lastOp')), lastOp'.candle, HISTORY_LIMIT)]_vars
    /\ [](UpsertAll(<<>>, <<Candle(100, 1), Candle(200, 1), Candle(300, 1),
                            Candle(300, 5), Candle(400, 1)>>, 3)
            = <<Candle(200, 1), Candle(300, 5), Candle(400, 1)>>)

\* C3 witness: with capacity 3, candle 400 has just been streamed and the
\* Series is 200, 300 (close 5), 400: the end of the scenario.
C3_Witness ==
    /\ HISTORY_LIMIT = 3
    /\ lastOp.op = "stream" /\ lastOp.locked /\ lastOp.candle = Candle(400, 1)
    /\ Series(OpKey(lastOp)) = <<Candle(200, 1), Candle(300, 5), Candle(400, 1)>>
    /\ bfpc[OpKey(lastOp)] = "request"

\* C1: when stream upserts have been applied to a Series before its pair's
\* backfill writes, the Series is strictly ascending by openTime, with no
\* openTime twice, after the backfill write.
C1_AscendingAfterBackfill ==
    [][(BackfillWrote /\ Before(OpKey(lastOp')) # <<>>)
        => StrictlyAscending(After(OpKey(lastOp')))]_vars

\* C4: the backfill write leaves the Series that the upsert rule, applied to
\* each backfilled candle in order, would leave, whatever the Series held.
C4_ExtendIsUpsertEach ==
    [][BackfillWrote =>
        After(OpKey(lastOp')) =
            UpsertAll(Before(OpKey(lastOp')), formatted[OpKey(lastOp')],
                      HISTORY_LIMIT)]_vars

\* C6: a candle with an openTime strictly less than the tail's leaves the
\* Series unchanged, whether a stream upsert delivers it or the backfill
\* write (here: a backfill whose candles are all older than the tail).
C6_StaleLeavesUnchanged ==
    [][/\ (StreamWrote /\ Before(OpKey(lastOp')) # <<>>
           /\ lastOp'.candle[1] < TailTime(Before(OpKey(lastOp'))))
          => After(OpKey(lastOp')) = Before(OpKey(lastOp'))
       /\ (BackfillWrote /\ Before(OpKey(lastOp')) # <<>>
           /\ \A n \in 1..Len(formatted[OpKey(lastOp')]) :
                 formatted[OpKey(lastOp')][n][1] < TailTime(Before(OpKey(lastOp'))))
          => After(OpKey(lastOp')) = Before(OpKey(lastOp'))]_vars

\* The positions of buf that hold open time t.
Stored(buf, t) == {n \in 1..Len(buf) : buf[n][1] = t}

\* C7 as claimed: a streamed candle whose openTime is stored anywhere in the
\* Series leaves the length unchanged and replaces the stored candle of that
\* openTime.
C7_ReplacesAnywhere ==
    [][(StreamWrote /\ Stored(Before(OpKey(lastOp')), lastOp'.candle[1]) # {})
        => /\ Len(After(OpKey(lastOp'))) = Len(Before(OpKey(lastOp')))
           /\ \A n \in Stored(Before(OpKey(lastOp')), lastOp'.candle[1]) :
                 After(OpKey(lastOp'))[n] = lastOp'.candle]_vars

\* C7 as amended: a streamed candle whose openTime is the tail's leaves the
\* length unchanged and replaces the tail, every other candle staying; a
\* streamed candle whose openTime is less than the tail's, stored or not,
\* leaves the Series unchanged, so a stored candle that is not the tail is
\* not replaced.
C7_ReplacesTailOnly ==
    [][(StreamWrote /\ Before(OpKey(lastOp')) # <<>>)
        => LET pre == Before(OpKey(lastOp'))
               post == After(OpKey(lastOp'))
               candle == lastOp'.candle
           IN  /\ candle[1] = TailTime(pre)
                  => /\ Len(post) = Len(pre)
                     /\ post[Len(post)] = candle
                     /\ \A n \in 1..(Len(pre) - 1) : post[n] = pre[n]
               /\ candle[1] < TailTime(pre) => post = pre]_vars

\* C7 witness: the candle just streamed has the openTime of a stored candle
\* that is not the tail and other values than it, and that stored candle is
\* still there.
C7_Witness ==
    /\ lastOp.op = "stream" /\ lastOp.locked
    /\ \E n \in 1..(Len(Series(OpKey(lastOp))) - 1) :
          /\ Series(OpKey(lastOp))[n][1] = lastOp.candle[1]
          /\ Series(OpKey(lastOp))[n] # lastOp.candle
    /\ lastOp.candle[1] < TailTime(Series(OpKey(lastOp)))

\* The Series a get_candles call of lastOp reads.
ReadSeries == SeriesOf(store, Upper(lastOp.symbol), lastOp.interval)

\* C8: for every limit >= 0, 0 and limits above the length included,
\* get_candles returns the last min(limit, length) candles of the Series, so
\* never more than limit.
C8_LastLimit ==
    (lastOp.op = "get" /\ lastOp.limit >= 0)
    => /\ lastOp.result = LastN(ReadSeries, lastOp.limit)
       /\ Len(lastOp.result) <= lastOp.limit

\* C9: get_candles for a pair with no Series returns the empty sequence,
\* raises nothing and leaves the Store as it was, keys included; a key of the
\* Store appears only in a stream or a backfill write.
C9_UnknownPairReadOnly ==
    [][/\ (lastOp'.op = "get"
           /\ ~HasSeries(store, Upper(lastOp'.symbol), lastOp'.interval))
          => /\ lastOp'.result = <<>>
             /\ ~lastOp'.raised
             /\ store' = store
       /\ (\E s \in DOMAIN store' :
              s \notin DOMAIN store \/ DOMAIN store'[s] # DOMAIN store[s])
          => (StreamWrote \/ BackfillWrote)]_vars

\* C9 witness: get_candles has just returned the empty sequence for an
\* interval with no Series, of a symbol that has one for another interval.
C9_Witness ==
    /\ lastOp.op = "get" /\ lastOp.result = <<>>
    /\ Upper(lastOp.symbol) \in DOMAIN store
    /\ lastOp.interval \notin DOMAIN store[Upper(lastOp.symbol)]
    /\ Len(store["BTCUSDT"]["1m"]) > 0

\* The tasks that are inside a block guarded by the lock.
CallersInside == {c \in Callers : rpc[c] \in {"locked", "read"}}

IngestorInside == IF ipc \in {"locked", "buffer", "mutated"} THEN {"ingestor"} ELSE {}

BackfillsInside == {p \in TrackedPairs : bfpc[p] \in {"locked", "extending"}}

\* C10: under every interleaving of the callers, the backfill tasks and the
\* ingestor, at most one task is inside a guarded block; and the list a
\* get_candles call has built is the snapshot of the Store as the last
\* finished write left it, never of a Store a write is halfway through.
C10_AtomicSnapshots ==
    /\ Cardinality(CallersInside) + Cardinality(IngestorInside)
         + Cardinality(BackfillsInside) <= 1
    /\ \A c \in Callers :
          rpc[c] = "read"
          => result[c] = Snapshot(committed, rargs[c][1], rargs[c][2], rargs[c][3])

\* C10 witness: a caller has built a snapshot of two candles or more that a
\* backfill wrote, while the other caller, the ingestor (with a candle to
\* upsert) wait for the lock.
C10_Witness ==
    /\ \E c \in Callers : rpc[c] = "read" /\ Len(result[c]) >= 2
    /\ \E c \in Callers : rpc[c] = "acquire"
    /\ ipc = "acquire"
    /\ \E p \in TrackedPairs : bfpc[p] = "written"


(***************************************************************************)
(* C11: the candles get_candles returns are copies.  A caller's write to a *)
(* field of a returned candle, or to the returned list, changes no candle  *)
(* of any Series, and a later write to the Store changes no candle of a    *)
(* list returned before.                                                   *)
(***************************************************************************)
\* What every Series shows.
StoredCandles ==
    [s \in DOMAIN store |-> [i \in DOMAIN store[s] |-> Deref(heap, store[s][i])]]

\* What the list returned to the caller c shows.
Returned(c) == Deref(heap, result[c])

C11_ReturnedAreCopies ==
    /\ [][lastOp'.op = "caller" => StoredCandles' = StoredCandles]_vars
    /\ [][lastOp'.op \in {"stream", "backfill"}
            => \A c \in Callers : Returned(c)' = Returned(c)]_vars


(***************************************************************************)
(* C12: start() does not wait for a backfill request or for the stream     *)
(* connection.  The step of start() leaves the backfill task and the       *)
(* ingestor created and not yet run, and from then on, whenever the tasks  *)
(* are at their awaits, the lock is free and a get_candles call goes       *)
(* through.                                                                *)
(***************************************************************************)
C12_StartDoesNotWait ==
    /\ [][Start => /\ bftask' = "pending"
                   /\ ws_task' = "pending"
                   /\ wpc' = "created"
                   /\ \A p \in LifePairs : bfpc'[p] = "none"
                   /\ store' = store]_vars
    /\ []((ws_task # "none" /\ Suspended) => (LockFree(lock) /\ ENABLED ReadStep))

\* start() has returned, no task has run yet, and a read has completed.
C12_Witness ==
    /\ ws_task = "pending" /\ wpc = "created"
    /\ bftask = "pending"
    /\ \A p \in LifePairs : bfpc[p] = "none"
    /\ lastOp.op = "get" /\ lastOp.result = <<>>

(***************************************************************************)
(* C13: in stop() the network client is closed only after the ingestor     *)
(* task is over and its connection closed: in no state is the session      *)
(* closed while the task is still alive or a connection open.              *)
(***************************************************************************)
C13_ClientClosedAfterIngestor ==
    session = "closed" =>
        /\ ws_task \in {"cancelled", "done"}
        /\ wpc \in {"cancelled", "ended"}
        /\ conns = 0

\* stop() is closing the session after an ingestor that had connected and
\* applied a candle.
C13_Witness ==
    /\ spc = "closing" /\ session = "closed"
    /\ ws_task = "cancelled"
    /\ HasSeries(store, "BTCUSDT", "1m")

(***************************************************************************)
(* C14: stop() terminates.  Once stop() has been called it returns,        *)
(* whatever the ingestor was doing and whether or not start() had been     *)
(* called, as long as the event loop keeps running the ready tasks.        *)
(***************************************************************************)
C14_StopTerminates == (spc # "idle") ~> (spc = "returned")

\* stop() has returned after cancelling the ingestor, with a backfill
\* request still in flight.
C14_Witness ==
    /\ spc = "returned"
    /\ ws_task = "cancelled"
    /\ \E p \in LifePairs : bfpc[p] = "request"

(***************************************************************************)
(* C15: a backfill failure stays inside the load of its pair.  The step in *)
(* which one load fails changes nothing of any other load, of the Store or *)
(* of the ingestor; a load that is waiting for its response can still get  *)
(* it, and a load whose request succeeded writes its rows to its Series.   *)
(***************************************************************************)
\* The load of the pair p fails in this step.
Fails(p) == bfpc[p] # "failed" /\ bfpc'[p] = "failed"

C15_FailureIsolated ==
    /\ [][\A p \in LifePairs :
            Fails(p) => /\ \A q \in LifePairs \ {p} :
                              bfpc'[q] = bfpc[q] /\ formatted'[q] = formatted[q]
                        /\ store' = store
                        /\ <<bftask, running, ws_task, wpc, conns>>'
                              = <<bftask, running, ws_task, wpc, conns>>]_vars
    /\ [][\A q \in LifePairs :
            (bfpc[q] = "formatted" /\ bfpc'[q] = "written")
                => /\ HasSeries(store', q[1], q[2])
                   /\ SeriesOf(store', q[1], q[2])
                         = DequeExtend(SeriesOf(store, q[1], q[2]), formatted[q],
                                       HISTORY_LIMIT)]_vars
    /\ [](\A q \in LifePairs :
            /\ bfpc[q] = "formatted" => ENABLED LifeWrite(q[1], q[2])
            /\ (bfpc[q] = "request" /\ Suspended)
                  => \A resp \in LifeResponses : ENABLED LifeFetch(q[1], q[2], resp))

\* The request of ETHUSDT failed, and after that the rows of BTCUSDT were
\* written, with the ingestor connected.
C15_Witness ==
    /\ bfpc[<<"ETHUSDT", "1m">>] = "failed"
    /\ session = "open"
    /\ bfpc[<<"BTCUSDT", "1m">>] = "written"
    /\ lastOp.op = "backfill" /\ lastOp.symbol = "BTCUSDT"
    /\ Len(SeriesOf(store, "BTCUSDT", "1m")) >= 1
    /\ wpc = "receive"

(***************************************************************************)
(* C16: while the service is running and the task not cancelled, the loop  *)
(* of the ingestor does not end, and an ingestor that is not Connected is  *)
(* Connected again at some later time (or has been cancelled by stop()),   *)
(* provided the event loop runs it and connection attempts that keep       *)
(* being made succeed at some time.                                        *)
(***************************************************************************)
C16_Reconnects ==
    /\ []((running /\ ws_task # "none") => (ws_task = "pending" /\ wpc # "ended"))
    /\ (ws_task = "pending" /\ wpc # "receive")
          ~> (wpc = "receive" \/ ws_task # "pending")

\* The ingestor is Connected again after it had lost its connection or
\* failed to get one.
C16_Witness ==
    /\ running /\ ws_task = "pending"
    /\ wpc = "receive"
    /\ disconnects = MaxDisconnects

(***************************************************************************)
(* C17: every disconnect of the running ingestor is followed by one        *)
(* backoff sleep before the next connection attempt: whenever the          *)
(* ingestor is attempting a connection or has one, it has slept once for   *)
(* each disconnect so far (two disconnects and a connection: two sleeps).  *)
(***************************************************************************)
C17_BackoffPerDisconnect ==
    wpc \in {"connecting", "receive"} => backoffs = disconnects

(***************************************************************************)
(* C18: a text message that is not a well-formed candle update (no 'data', *)
(* another event type, not JSON, a kline with a missing or non-numeric     *)
(* field) is ignored: the Store is as it was and the ingestor is still     *)
(* receiving on the same connection.                                       *)
(***************************************************************************)
\* The frame is a text that is not a well-formed candle update.
NotCandleUpdate(frame) ==
    /\ frame.type = "TEXT"
    /\ \/ ~Decodable(frame.data)
       \/ ~IsKlineEvent(JsonLoads(frame.data))
       \/ ProcessRaises(JsonLoads(frame.data))

C18_MalformedIgnored ==
    [][\A frame \in Frames :
          (NotCandleUpdate(frame) /\ WsFrame(frame))
              => /\ store' = store
                 /\ wpc' = "receive"
                 /\ conns' = conns
                 /\ ws_task' = ws_task]_vars

(***************************************************************************)
(* C19: the Store holds Series only for tracked symbols and tracked        *)
(* intervals, whatever the stream messages and the reads carry.            *)
(***************************************************************************)
C19_OnlyTrackedKeys ==
    \A s \in DOMAIN store :
        s \in LifeSymbols /\ DOMAIN store[s] \subseteq INTERVALS

(***************************************************************************)
(* C20: the connection state of the ingestor.  As claimed: it moves only   *)
(* Disconnected -> Connecting -> Connected -> Disconnected, the stream     *)
(* writes to the Store only while Connected, and at most one connection is *)
(* open.  As it holds: the same, with the move from Connecting back to     *)
(* Disconnected when an attempt fails or is cancelled.                     *)
(***************************************************************************)
\* The connection state, read off the await the task is at.
ConnState ==
    IF wpc = "connecting" THEN "Connecting"
    ELSE IF wpc = "receive" THEN "Connected" ELSE "Disconnected"

\* The moves of the claimed cycle.
Cycle == {<<"Disconnected", "Connecting">>, <<"Connecting", "Connected">>,
          <<"Connected", "Disconnected">>}

\* The stream writes only while Connected, and one connection at most is
\* open, which is the one of the Connected state.
ConnectedDiscipline ==
    /\ [][(store' # store /\ bfpc' = bfpc)
            => (ConnState = "Connected" /\ ConnState' = "Connected" /\ conns = 1)]_vars
    /\ [](conns \in {0, 1} /\ (conns = 1 <=> ConnState = "Connected"))

C20_OnlyCycle ==
    /\ [][ConnState' # ConnState => <<ConnState, ConnState'>> \in Cycle]_vars
    /\ ConnectedDiscipline

C20_CycleOrFailedAttempt ==
    /\ [][ConnState' # ConnState
            => <<ConnState, ConnState'>>
                  \in Cycle \cup {<<"Connecting", "Disconnected">>}]_vars
    /\ ConnectedDiscipline

\* The ingestor is Connected on its one connection, a candle applied, after
\* an attempt that failed and a connection that was lost.
C20_Witness ==
    /\ ConnState = "Connected" /\ conns = 1
    /\ HasSeries(store, "BTCUSDT", "1m")
    /\ disconnects = MaxDisconnects /\ backoffs = 1

(***************************************************************************)
(* C21: connecting and disconnecting leave the Store alone.  A step in     *)
(* which the connection state changes (an attempt begins, fails or         *)
(* succeeds, a connection is lost) changes no Series; outside the backfill *)
(* writes the Store changes only by the upsert of a candle update received *)
(* on the open connection.  So after two aborted attempts and a third,     *)
(* successful one the Store is what it was plus that connection's upserts. *)
(***************************************************************************)
\* The Store changes in this step and no backfill task moves.
StreamChangesStore == store' # store /\ bfpc' = bfpc

\* The texts that carry a candle update that converts.
CandleTexts ==
    {text \in Texts : /\ Decodable(text)
                      /\ IsKlineEvent(JsonLoads(text))
                      /\ ~ProcessRaises(JsonLoads(text))}

C21_DisconnectsKeepStore ==
    /\ [][ConnState' # ConnState => store' = store]_vars
    /\ [][StreamChangesStore
            => /\ ConnState = "Connected" /\ ConnState' = "Connected"
               /\ \E text \in CandleTexts :
                     store' = StoreAfterProcess(store, JsonLoads(text))]_vars

\* Two attempts were aborted, each followed by its backoff sleep, and on
\* the connection that then succeeded one candle was applied: the Store
\* holds that candle and nothing else.
C21_Witness ==
    /\ wpc = "receive"
    /\ disconnects = 2 /\ backoffs = 2
    /\ store = StoreAfterProcess(EmptyDict, JsonLoads("kline"))

(***************************************************************************)
(* C22: one bulk request and at most one backfill write per pair and       *)
(* start().  The load of a pair only moves forward, from scheduled to its  *)
(* request to its write or its failure, so it makes its request once and   *)
(* writes once at most; when the backfill task is over every pair has had  *)
(* its request; and no connect or disconnect of the ingestor moves a load. *)
(***************************************************************************)
\* How far the load of a pair is.
Progress(pc) ==
    CASE pc = "none" -> 0
      [] pc = "scheduled" -> 1
      [] pc = "request" -> 2
      [] pc = "formatted" -> 3
      [] pc \in {"written", "failed", "skipped"} -> 4

C22_OneBackfillPerPair ==
    /\ [][\A p \in LifePairs :
            /\ bfpc'[p] # bfpc[p] => Progress(bfpc'[p]) > Progress(bfpc[p])
            /\ (bfpc'[p] = "request" /\ bfpc[p] # "request") => bfpc[p] = "scheduled"
            /\ (bfpc'[p] = "written" /\ bfpc[p] # "written") => bfpc[p] = "formatted"]_vars
    /\ [][ConnState' # ConnState
            => (bfpc' = bfpc /\ formatted' = formatted /\ bftask' = bftask)]_vars
    /\ [][bftask' # bftask
            => <<bftask, bftask'>> \in {<<"none", "pending">>, <<"pending", "gathering">>,
                                        <<"gathering", "done">>}]_vars
    /\ [](bftask = "done" => \A p \in LifePairs : bfpc[p] \in {"written", "failed"})
    /\ [](bftask \in {"none", "pending"} => \A p \in LifePairs : bfpc[p] = "none")

\* The backfill task is over, one pair written and one failed, and the
\* ingestor has since lost a connection and is connected again.
C22_Witness ==
    /\ bftask = "done"
    /\ \E p \in LifePairs : bfpc[p] = "written"
    /\ \E p \in LifePairs : bfpc[p] = "failed"
    /\ disconnects >= 1 /\ wpc = "receive"
    /\ spc = "idle"

(***************************************************************************)
(* C23: no task holds the lock across a suspension point.  The lock is     *)
(* held exactly while one task is at a statement of its guarded block; the *)
(* holder has what it works on before it takes the lock (the ingestor its  *)
(* converted candle event, the backfill task its converted rows) and can   *)
(* always take its next statement, up to the release, without a message or *)
(* a response arriving; so a get_candles call waits only for such          *)
(* statements.                                                             *)
(***************************************************************************)
\* How many tasks are at a statement of a guarded block.
TasksInside ==
    Cardinality(CallersInside) + Cardinality(IngestorInside)
        + Cardinality(BackfillsInside)

\* A statement of a guarded block: none of them receives or requests.
HolderStep ==
    \/ \E c \in Callers : GetRead(c) \/ GetRelease(c)
    \/ StreamLookup \/ StreamMutate \/ StreamRelease
    \/ \E p \in TrackedPairs :
          \/ BackfillLookup(p[1], p[2])
          \/ BackfillExtendOne(p[1], p[2])
          \/ BackfillRelease(p[1], p[2])

C23_NoLockAcrossAwait ==
    /\ lock <=> TasksInside = 1
    /\ ~lock <=> TasksInside = 0
    /\ lock => ENABLED HolderStep
    /\ IngestorInside # {} => (ik \in Klines /\ KlineNumeric(ik))
    /\ \A p \in TrackedPairs : bfpc[p] = "request" => p \notin BackfillsInside
    /\ ipc = "receive" => IngestorInside = {}

\* A caller waits for the lock while the backfill task is halfway through
\* its extend, and the ingestor is waiting for a message.
C23_Witness ==
    /\ lock
    /\ \E c \in Callers : rpc[c] = "acquire"
    /\ \E p \in TrackedPairs : bfpc[p] = "extending" /\ formatted[p] # <<>>
    /\ ipc = "receive"

(***************************************************************************)
(* C24: once stop() has signalled the ingestor (running is False and the   *)
(* task of start() has had its cancel()), the ingestor calls ws_connect no *)
(* more, opens no connection and begins no sleep, and no stream message    *)
(* changes the Store; when that stop() has returned the ingestor is over,  *)
(* so that none is applied ever after.                                     *)
(***************************************************************************)
\* stop() has run lines 52-54 on the task that start() created.
Signalled == ~running /\ ws_task # "none"

C24_NothingAfterStop ==
    /\ [][Signalled
            => /\ wpc' \in {"connecting", "backoff", "sleep"} => wpc' = wpc
               /\ conns' <= conns
               /\ backoffs' = backoffs
               /\ ~StreamChangesStore]_vars
    /\ [][Signalled /\ ws_task = "cancelling" /\ wpc' # wpc
            => wpc' = "cancelled"]_vars
    /\ []((Signalled /\ spc = "returned")
            => /\ wpc \in {"cancelled", "ended"}
               /\ ~ENABLED (\E frame \in Frames : WsFrame(frame)))

\* stop() has returned after cancelling an ingestor that had applied a
\* candle on its second connection.
C24_Witness ==
    /\ Signalled
    /\ spc = "returned"
    /\ wpc = "cancelled"
    /\ disconnects >= 1
    /\ HasSeries(store, "BTCUSDT", "1m")

(***************************************************************************)
(* C25: a backfill is all or nothing.  A request that raises, a status     *)
(* other than 200 or a row that does not convert ends the load of the pair *)
(* with the Store as it was and nothing kept for a later write, and a load *)
(* that has failed never writes.  Only a response whose every row          *)
(* converted is written, whole, in one locked step: the Series after it is *)
(* the Series before it extended with the converted rows.                  *)
(***************************************************************************)
\* The request raised, the status is not 200, or some row is malformed.
Unusable(resp) ==
    \/ resp.error
    \/ resp.status # 200
    \/ \E n \in 1..Len(resp.body) : ~RowNumeric(resp.body[n])

C25_AllOrNothing ==
    /\ [][\A p \in TrackedPairs, resp \in Responses :
            BackfillFetch(p[1], p[2], resp)
               => /\ store' = store
                  /\ IF Unusable(resp)
                     THEN bfpc'[p] = "failed" /\ formatted'[p] = <<>>
                     ELSE /\ bfpc'[p] = "formatted"
                          /\ formatted'[p] = Format(resp.body)
                          /\ Len(formatted'[p]) = Len(resp.body)]_vars
    /\ [][\A p \in TrackedPairs :
            bfpc[p] = "failed"
               => /\ bfpc'[p] = "failed"
                  /\ lastOp'.op = "backfill"
                        => <<lastOp'.symbol, lastOp'.interval>> # p]_vars
    /\ [][\A p \in TrackedPairs :
            (bfpc'[p] = "written" /\ bfpc[p] # "written")
               => /\ bfpc[p] = "formatted"
                  /\ lastOp'.op = "backfill" /\ lastOp'.locked
                  /\ After(p) = DequeExtend(Before(p), formatted[p],
                                            HISTORY_LIMIT)]_vars
    /\ [][lastOp'.op = "backfill"
            => \E p \in TrackedPairs :
                  bfpc[p] = "formatted" /\ bfpc'[p] = "written"]_vars
    /\ [][store' # store => lastOp'.op \in {"stream", "backfill"}]_vars

\* The load of a pair has just failed on an exception (a request that
\* raised, or a row that did not convert) and the two streamed candles of
\* its Series are as they were.
C25_Witness ==
    /\ lastOp.op = "fetch" /\ lastOp.raised
    /\ bfpc[<<lastOp.symbol, lastOp.interval>>] = "failed"
    /\ Len(Series(<<lastOp.symbol, lastOp.interval>>)) = 2

(***************************************************************************)
(* Construction: MarketDataService() called again while the service lives. *)
(***************************************************************************)
\* Up to how many later constructions the history counts.
MaxConstructions == 2

\* Mutant of New: every call makes an object.
NewAlways(inst) == inst + 1

\* __new__, lines 14-18: the object the call returns, given cls._instance
\* (0 for None).  An object is made only when there is none.
New(inst) == IF inst = 0 THEN 1 ELSE inst

\* MarketDataService(): __new__ and then __init__ on what it returned.  An
\* object that __new__ has just made has initialized False (line 17); on an
\* object with initialized True __init__ returns at once (lines 21-22),
\* otherwise it builds the fields (lines 25-33).
Construct ==
    /\ Suspended
    /\ LET obj == New(instance)
           done == obj = instance /\ initialized
       IN  /\ instance' = obj
           /\ initialized' = TRUE
           /\ IF done
              THEN UNCHANGED <<store, lock, session, ws_task, running, inits>>
              ELSE /\ store' = EmptyDict
                   /\ lock' = FALSE
                   /\ session' = "none"
                   /\ ws_task' = "none"
                   /\ running' = FALSE
                   /\ inits' = inits + 1
    /\ constructions' = IF constructions < MaxConstructions
                        THEN constructions + 1 ELSE constructions
    /\ UNCHANGED <<bfpc, formatted, run, lastOp, rpc, rargs, result, ipc, ik,
                   committed, heap, wpc, conns, spc, bftask, histVars>>

NextNew == Construct \/ NextLife

SpecNew == InitLife /\ [][NextNew]_vars

(***************************************************************************)
(* C26: MarketDataService is a singleton.  Every construction returns the  *)
(* object the module made at import, and runs the body of __init__ no      *)
(* second time: the Store, the lock, the session, the ingestor task and    *)
(* the running flag are after it what they were before it, with data       *)
(* stored and the service started or not.                                  *)
(***************************************************************************)
C26_Singleton ==
    /\ [][Construct
            => /\ instance' = instance
               /\ store' = store
               /\ lock' = lock
               /\ session' = session
               /\ ws_task' = ws_task
               /\ running' = running
               /\ inits' = inits]_vars
    /\ [](instance = 1 /\ initialized /\ inits = 1)

\* The service is constructed a second time while it is started, connected
\* and holds a streamed candle.
C26_Witness ==
    /\ constructions = 2
    /\ running /\ session = "open" /\ ws_task = "pending" /\ wpc = "receive"
    /\ HasSeries(store, "BTCUSDT", "1m")
    /\ Len(store["BTCUSDT"]["1m"]) >= 1

=============================================================================
